---- MODULE Spec2Model ----
(***************************************************************************)
(* Account/session-token lifecycle of the user controller:                 *)
(* registerUser, loginUser, logoutUser, refreshAccessToken,                *)
(* changeCurrentPassword and generateTokens of                             *)
(* src/controllers/user.controller.js, run as concurrent requests against  *)
(* one account store.  Every action is one resumption of a handler: the    *)
(* code between two awaits that touch the store.  The handlers are the     *)
(* functions handed to asyncHandler, applied to the request as `req` and   *)
(* the response as `res`.                                                  *)
(***************************************************************************)
EXTENDS Integers, Sequences, FiniteSets, TLC

VARIABLES db, now, procs, delivered, issued, closed, calls, last

vars == <<db, now, procs, delivered, issued, closed, calls, last>>

(* ------------------------------ bounds --------------------------------- *)
\* Requests in flight at once: in the session specification, in the
\* registration specification.
NumSerial == 1
NumProcs == 2
MaxAccounts == 2
MaxClock == 2
\* Calls of generateTokens in one behaviour.
MaxCalls == 3
\* REFRESH_TOKEN_EXPIRY, in clock ticks.
RefreshTokenExpiry == 2

Procs == DOMAIN procs

(* ------------------------------ values --------------------------------- *)
\* Text is a sequence of characters; `undefined` is a value no text equals.
Undefined == <<"undefined">>

NoToken == [typ |-> "undefined", id |-> 0, iat |-> 0, sig |-> FALSE]

NoData == [f \in {} |-> 0]

UserNames == {<<"a">>, <<"A">>, <<"b">>}
Emails == {<<"e">>, <<"f">>}
Passwords == {<<"p">>, <<"q">>}
FullNames == {<<"n">>}
BlankText == <<" ">>

LowerChar(c) ==
  CASE c = "A" -> "a"
    [] c = "B" -> "b"
    [] OTHER -> c

toLowerCase(s) == [i \in 1..Len(s) |-> LowerChar(s[i])]

RECURSIVE trimStart(_)
trimStart(s) ==
  IF s # <<>> /\ Head(s) = " " THEN trimStart(Tail(s)) ELSE s

RECURSIVE trimEnd(_)
trimEnd(s) ==
  IF s # <<>> /\ s[Len(s)] = " " THEN trimEnd(SubSeq(s, 1, Len(s) - 1)) ELSE s

trim(s) == trimEnd(trimStart(s))

\* JavaScript truthiness of an optional text value.
Truthy(s) == s # Undefined /\ s # <<>>

(* ----------------------- password hashing (model) ---------------------- *)
Hash(plain) == <<"$2b$">> \o plain

isPasswordCorrect(plain, hash) == Hash(plain) = hash

(* ----------------------------- tokens ---------------------------------- *)
generateRefreshToken(id, t) == [typ |-> "refresh", id |-> id, iat |-> t, sig |-> TRUE]

generateAccessToken(id, t) == [typ |-> "access", id |-> id, iat |-> t, sig |-> TRUE]

Forge(tok) == [tok EXCEPT !.sig = FALSE]

\* A verifier that checks the signature and never the expiry.
jwtVerify_noExpiry(tok, t) ==
  IF ~tok.sig \/ tok.typ # "refresh" THEN "invalid signature" ELSE ""

\* jwt.verify(token, REFRESH_TOKEN_SECRET): "" when the token verifies, else the reason.
jwtVerify(tok, t) ==
  IF ~tok.sig \/ tok.typ # "refresh" THEN "invalid signature"
  ELSE IF t >= tok.iat + RefreshTokenExpiry THEN "jwt expired"
  ELSE ""

(* --------------------------- account store ----------------------------- *)
Ids == 1..Len(db)

Matches(doc, userName, email) ==
  \/ userName # Undefined /\ doc.userName = userName
  \/ email # Undefined /\ doc.email = email

\* findOne with an empty filter: the first account whatever was asked for.
findOne_noFilter(userName, email) == IF Ids = {} THEN 0 ELSE 1

\* findOne with the email branch of the $or left out.
findOne_userNameOnly(userName, email) ==
  LET hits == {i \in Ids : userName # Undefined /\ db[i].userName = userName}
  IN IF hits = {} THEN 0 ELSE CHOOSE i \in hits : \A j \in hits : i <= j

\* User.findOne({$or: [{userName}, {email}]}): the first matching id, 0 for null.
findOne(userName, email) ==
  LET hits == {i \in Ids : Matches(db[i], userName, email)}
  IN IF hits = {} THEN 0 ELSE CHOOSE i \in hits : \A j \in hits : i <= j

\* User.findById(id): the id when the account exists, 0 for null.
findById(id) == IF id \in Ids THEN id ELSE 0

\* A projection that drops the password alone.
Select_passwordOnly(doc) == [f \in DOMAIN doc \ {"password"} |-> doc[f]]

\* .select("-password -refreshToken")
Select(doc) == [f \in DOMAIN doc \ {"password", "refreshToken"} |-> doc[f]]

(* ---------------------------- responses -------------------------------- *)
Cookie(name, value, options) ==
  [name |-> name, value |-> value, httpOnly |-> options.httpOnly, secure |-> options.secure]

Response(status, message, cookies, data) ==
  [status |-> status, message |-> message, cookies |-> cookies, cleared |-> {},
   data |-> data]

ApiError(status, message) == Response(status, message, {}, NoData)

\* An exception that is no ApiError, forwarded to next(err).
TypeError == Response(500, "TypeError", {}, NoData)

Idle == [op |-> "none", pc |-> "idle", req |-> NoData, user |-> 0,
         snapTok |-> NoToken, tok |-> NoToken, acc |-> NoToken]

NoLast == [op |-> "none", req |-> NoData, user |-> 0, snapTok |-> NoToken,
           tok |-> NoToken, resp |-> Response(0, "", {}, NoData)]

\* Request of process p ends with response resp.
Finish(p, op, req, user, snapTok, tok, resp) ==
  /\ procs' = [procs EXCEPT ![p] = Idle]
  /\ last' = [op |-> op, req |-> req, user |-> user, snapTok |-> snapTok,
              tok |-> tok, resp |-> resp]
  /\ UNCHANGED calls

Suspend(p, op, pc, req, user, snapTok, tok, acc) ==
  /\ procs' = [procs EXCEPT ![p] = [op |-> op, pc |-> pc, req |-> req, user |-> user,
                                    snapTok |-> snapTok, tok |-> tok, acc |-> acc]]
  /\ UNCHANGED <<last, calls>>

\* The call of generateTokens(userId) by loginUser and refreshAccessToken.
CallGenerateTokens(p, op, req, userId, snapTok) ==
  /\ calls < MaxCalls
  /\ calls' = calls + 1
  /\ procs' = [procs EXCEPT ![p] = [op |-> op, pc |-> "gen", req |-> req,
                                    user |-> userId, snapTok |-> snapTok,
                                    tok |-> NoToken, acc |-> NoToken]]
  /\ UNCHANGED last

\* A new request takes the lowest idle slot (the slots are interchangeable).
FreeProc ==
  LET idle == {q \in Procs : procs[q].pc = "idle"}
  IN IF idle = {} THEN 0 ELSE CHOOSE q \in idle : \A r \in idle : q <= r

(* ------------------------------- Init ---------------------------------- *)
InitStore ==
  /\ db = <<>>
  /\ now = 0
  /\ delivered = {}
  /\ issued = <<>>
  /\ closed = {}
  /\ calls = 0
  /\ last = NoLast

Init == InitStore /\ procs = [p \in 1..NumSerial |-> Idle]

InitRegister == InitStore /\ procs = [p \in 1..NumProcs |-> Idle]

Tick ==
  /\ now < MaxClock
  /\ now' = now + 1
  /\ UNCHANGED <<db, procs, delivered, issued, closed, calls, last>>

(* ---------------------------- registerUser ---------------------------- *)
ValidBody == [userName |-> <<"a">>, fullName |-> <<"n">>, email |-> <<"e">>,
              password |-> <<"p">>]

RegisterBodies ==
  [userName : UserNames, fullName : FullNames, email : Emails, password : {<<"p">>}]
  \cup {[ValidBody EXCEPT ![f] = v] :
          f \in {"userName", "fullName", "email", "password"},
          v \in {BlankText, Undefined}}

\* The registrations the session specification draws from.
SessionBodies ==
  {[ValidBody EXCEPT !.userName = u[1], !.email = u[2]] :
     u \in {<<<<"A">>, <<"e">>>>, <<<<"b">>, <<"f">>>>}}

BothFiles == [defined |-> TRUE, avatarImage |-> TRUE, coverImage |-> TRUE]

\* req.files as multer leaves it: undefined without a multipart body, else an
\* object holding a key for each uploaded field only.
FilesSet ==
  {[defined |-> FALSE, avatarImage |-> FALSE, coverImage |-> FALSE]}
  \cup [defined : {TRUE}, avatarImage : BOOLEAN, coverImage : BOOLEAN]

\* [fullName, userName, email, password].some((item) => item.trim() === ""):
\* "blank" when an item trims to "", "throws" when trim is reached on undefined
\* first, "ok" otherwise.
RECURSIVE someBlank(_)
someBlank(items) ==
  IF items = <<>> THEN "ok"
  ELSE IF Head(items) = Undefined THEN "throws"
  ELSE IF trim(Head(items)) = <<>> THEN "blank"
  ELSE someBlank(Tail(items))

InFlightCreates ==
  Cardinality({q \in Procs : procs[q].op = "register" /\ procs[q].pc = "upload"})

\* Lines 110-174: validation, the duplicate lookup and the local image paths.
registerUser_findOne(p, body, files) ==
  /\ p = FreeProc
  /\ LET req == [body |-> body, files |-> files]
         check == someBlank(<<body.fullName, body.userName, body.email, body.password>>)
         isUserExist == findOne(body.userName, body.email)
         fail(resp) == Finish(p, "register", req, isUserExist, NoToken, NoToken, resp)
     IN IF check = "throws" THEN fail(TypeError)
        ELSE IF check = "blank" THEN fail(ApiError(400, "All fields are required"))
        ELSE IF isUserExist # 0 THEN fail(ApiError(400, "User already exist"))
        ELSE IF ~files.defined THEN fail(ApiError(400, "Profile images are required"))
        ELSE IF ~files.avatarImage \/ ~files.coverImage THEN fail(TypeError)
        ELSE /\ Len(db) + InFlightCreates < MaxAccounts
             /\ Suspend(p, "register", "upload", req, 0, NoToken, NoToken, NoToken)
  /\ UNCHANGED <<db, now, delivered, issued, closed>>

\* A create that stores the user name as it was typed.
NewUser_asTyped(body) ==
  [_id |-> Len(db) + 1,
   fullName |-> body.fullName,
   userName |-> body.userName,
   email |-> body.email,
   password |-> Hash(body.password),
   avatarImage |-> "url",
   coverImage |-> "url",
   refreshToken |-> NoToken]

\* An account created with a refresh token already on it.
NewUser_withToken(body) ==
  [_id |-> Len(db) + 1,
   fullName |-> body.fullName,
   userName |-> toLowerCase(body.userName),
   email |-> body.email,
   password |-> Hash(body.password),
   avatarImage |-> "url",
   coverImage |-> "url",
   refreshToken |-> generateRefreshToken(Len(db) + 1, now)]

NewUser(body) ==
  [_id |-> Len(db) + 1,
   fullName |-> body.fullName,
   userName |-> toLowerCase(body.userName),
   email |-> body.email,
   password |-> Hash(body.password),
   avatarImage |-> "url",
   coverImage |-> "url",
   refreshToken |-> NoToken]

\* Lines 182-214: both uploads resolve (each to {url} or null), then User.create.
registerUser_create(p, avatarImage, coverImage) ==
  /\ procs[p].op = "register" /\ procs[p].pc = "upload"
  /\ LET req == procs[p].req
         fail(resp) == Finish(p, "register", req, 0, NoToken, NoToken, resp)
     IN IF ~avatarImage /\ ~coverImage
          THEN fail(ApiError(400, "Profile images are required")) /\ UNCHANGED <<db, issued>>
        ELSE IF ~avatarImage \/ ~coverImage
          THEN fail(TypeError) /\ UNCHANGED <<db, issued>>
        ELSE /\ db' = Append(db, NewUser(req.body))
             /\ issued' = Append(issued, [prev |-> NoToken, cur |-> NoToken])
             /\ Suspend(p, "register", "created", req, Len(db) + 1, NoToken, NoToken, NoToken)
  /\ UNCHANGED <<now, delivered, closed>>

\* Lines 221-236: re-fetch without password and refreshToken, respond 201.
registerUser_respond(p) ==
  /\ procs[p].op = "register" /\ procs[p].pc = "created"
  /\ LET isUserCreated == findById(procs[p].user)
         resp == IF isUserCreated = 0 THEN ApiError(500, "User not created")
                 ELSE Response(201, "", {},
                        [message |-> "User registered successfully",
                         isUserCreated |-> Select(db[isUserCreated])])
     IN Finish(p, "register", procs[p].req, procs[p].user, NoToken, NoToken, resp)
  /\ UNCHANGED <<db, now, delivered, issued, closed>>

\* Lines 221-229 when the re-fetch comes back empty (a read that does not see
\* the document just created): 500 "User not created"; nothing undoes the create.
registerUser_refetchEmpty ==
  \E p \in Procs :
    /\ procs[p].op = "register" /\ procs[p].pc = "created"
    /\ Finish(p, "register", procs[p].req, procs[p].user, NoToken, NoToken,
         ApiError(500, "User not created"))
    /\ UNCHANGED <<db, now, delivered, issued, closed>>

registerUser(Bodies, Files, Uploads) ==
  \E p \in Procs :
    \/ /\ p = FreeProc
       /\ \E body \in Bodies, files \in Files :
            /\ someBlank(<<body.fullName, body.userName, body.email, body.password>>) # "ok"
                 => files = BothFiles
            /\ registerUser_findOne(p, body, files)
    \/ \E avatarImage \in Uploads, coverImage \in Uploads :
         registerUser_create(p, avatarImage, coverImage)
    \/ registerUser_respond(p)


(* --------------------------- generateTokens ---------------------------- *)
\* A request of this account is inside generateTokens or behind it.
GenInFlight(id) ==
  \E p \in Procs : procs[p].user = id /\ procs[p].pc \in {"gen", "save", "fetch"}

\* What refreshAccessToken's catch and loginUser make of generateTokens' ApiError.
GenerateFailed(op) ==
  ApiError(IF op = "refresh" THEN 401 ELSE 500, "Error while generating tokens")

\* Lines 28-53: findById, then both tokens are signed at the current time.
generateTokens_findById(p) ==
  /\ procs[p].pc = "gen"
  /\ LET user == findById(procs[p].user)
         me == procs[p]
     IN IF user = 0
          THEN Finish(p, me.op, me.req, me.user, me.snapTok, NoToken, GenerateFailed(me.op))
          ELSE Suspend(p, me.op, "save", me.req, me.user, me.snapTok,
                 generateRefreshToken(user, now), generateAccessToken(user, now))
  /\ UNCHANGED <<db, now, delivered, issued, closed>>

TokenOptions == [httpOnly |-> FALSE, secure |-> FALSE]

\* A response whose body carries the new refresh token.
refreshAccessToken_respond_newInBody(p, accessToken, refreshToken) ==
  /\ Finish(p, "refresh", procs[p].req, procs[p].user, procs[p].snapTok, refreshToken,
       Response(200, "Access token refreshed successfully",
         {Cookie("accessToken", accessToken, TokenOptions),
          Cookie("refreshToken", refreshToken, TokenOptions)},
         [accessToken |-> accessToken, refreshToken |-> refreshToken]))
  /\ delivered' = delivered \cup {refreshToken}

\* Lines 526-539: the response of refreshAccessToken once generateTokens returned.
refreshAccessToken_respond(p, accessToken, refreshToken) ==
  /\ Finish(p, "refresh", procs[p].req, procs[p].user, procs[p].snapTok, refreshToken,
       Response(200, "Access token refreshed successfully",
         {Cookie("accessToken", accessToken, TokenOptions),
          Cookie("refreshToken", refreshToken, TokenOptions)},
         [accessToken |-> accessToken, refreshToken |-> procs[p].req.token]))
  /\ delivered' = delivered \cup {refreshToken}

\* Line 63: return {accessToken, refreshToken} to a caller that is no handler.
Returned(accessToken, refreshToken) ==
  Response(0, "", {}, [accessToken |-> accessToken, refreshToken |-> refreshToken])

\* A save that leaves a token already on the record in place.
SaveToken_keepFirst(doc, refreshToken) ==
  IF doc.refreshToken # NoToken THEN doc ELSE [doc EXCEPT !.refreshToken = refreshToken]

\* A save that writes the whole document back and hashes the password again.
SaveToken_rehash(doc, refreshToken) ==
  [doc EXCEPT !.refreshToken = refreshToken, !.password = Hash(@)]

\* Lines 53-61: user.refreshToken = refreshToken; user.save(): the one modified path.
SaveToken(doc, refreshToken) == [doc EXCEPT !.refreshToken = refreshToken]

\* Lines 53-66: the save, which may fail, and the caller's resumption: loginUser
\* goes on to its re-fetch, refreshAccessToken answers, and its catch turns a
\* failure into a 401.
generateTokens_save(p, saved) ==
  /\ procs[p].pc = "save"
  /\ LET me == procs[p]
     IN IF saved
          THEN /\ db' = [db EXCEPT ![me.user] = SaveToken(@, me.tok)]
               /\ issued' = [issued EXCEPT ![me.user] = [prev |-> @.cur, cur |-> me.tok]]
               /\ closed' = IF me.op = "refresh" THEN closed ELSE closed \ {me.user}
               /\ IF me.op = "refresh"
                    THEN refreshAccessToken_respond(p, me.acc, me.tok)
                    ELSE IF me.op = "login"
                      THEN /\ Suspend(p, me.op, "fetch", me.req, me.user, me.snapTok,
                                me.tok, me.acc)
                           /\ UNCHANGED delivered
                      ELSE /\ Finish(p, me.op, me.req, me.user, me.snapTok, me.tok,
                                Returned(me.acc, me.tok))
                           /\ UNCHANGED delivered
          ELSE /\ Finish(p, me.op, me.req, me.user, me.snapTok, NoToken,
                    GenerateFailed(me.op))
               /\ UNCHANGED <<db, issued, delivered, closed>>
  /\ UNCHANGED now

generateTokens ==
  \E p \in Procs :
    \/ generateTokens_findById(p)
    \/ \E saved \in BOOLEAN : generateTokens_save(p, saved)

\* generateTokens is exported (line 685): a call of it with any id at all.
generateTokens_direct ==
  \E p \in Procs, userId \in 1..(MaxAccounts + 1) :
    /\ p = FreeProc
    /\ CallGenerateTokens(p, "generateTokens", [userId |-> userId], userId, NoToken)
    /\ UNCHANGED <<db, now, delivered, issued, closed>>

(* ------------------------------ loginUser ------------------------------ *)
LoginBodies ==
  [userName : UserNames, email : {Undefined}, password : Passwords]
  \cup {[userName |-> Undefined, email |-> <<"e">>, password |-> <<"p">>],
        [userName |-> Undefined, email |-> Undefined, password |-> <<"p">>]}

\* The answer "go on": no response yet.
Proceed == Response(0, "", {}, NoData)

\* loginUser_check without the test of isValidPasswrd.
loginUser_check_noPassword(body) ==
  IF ~(Truthy(body.userName) \/ Truthy(body.email))
    THEN ApiError(400, "Either username or email required")
  ELSE IF findOne(body.userName, body.email) = 0 THEN ApiError(401, "User does not exist")
  ELSE Proceed

\* Lines 263-312: validation, lookup and password check of loginUser.
loginUser_check(body) ==
  LET user == findOne(body.userName, body.email)
  IN IF ~(Truthy(body.userName) \/ Truthy(body.email))
       THEN ApiError(400, "Either username or email required")
     ELSE IF user = 0 THEN ApiError(401, "User does not exist")
     ELSE IF ~isPasswordCorrect(body.password, db[user].password)
       THEN ApiError(401, "Invalid password")
     ELSE Proceed

\* Lines 263-320: the checks, then the call of generateTokens(user._id).
loginUser_findOne(p, body) ==
  /\ p = FreeProc
  /\ LET user == findOne(body.userName, body.email)
         resp == loginUser_check(body)
     IN IF resp # Proceed
          THEN Finish(p, "login", body, user, NoToken, NoToken, resp)
          ELSE CallGenerateTokens(p, "login", body, user, NoToken)
  /\ UNCHANGED <<db, now, delivered, issued, closed>>

\* Lines 327-363: re-fetch without password and refreshToken, cookies, 200.
loginUser_respond(p) ==
  /\ procs[p].op = "login" /\ procs[p].pc = "fetch"
  /\ LET me == procs[p]
         loggedInUser == Select(db[me.user])
     IN /\ Finish(p, "login", me.req, me.user, NoToken, me.tok,
             Response(200, "User loggedin successfully",
               {Cookie("accessToken", me.acc, TokenOptions),
                Cookie("refreshToken", me.tok, TokenOptions)},
               [user |-> loggedInUser, accessToken |-> me.acc, refreshToken |-> me.tok]))
        /\ delivered' = delivered \cup {me.tok}
  /\ UNCHANGED <<db, now, issued, closed>>

loginUser ==
  \E p \in Procs :
    \/ \E body \in LoginBodies : loginUser_findOne(p, body)
    \/ loginUser_respond(p)

\* The login of the account the concurrent specification registers.
SessionLogin == [userName |-> <<"b">>, email |-> Undefined, password |-> <<"p">>]

loginUser_session ==
  \E p \in Procs :
    \/ loginUser_findOne(p, SessionLogin)
    \/ loginUser_respond(p)

(* ------------------------- refreshAccessToken -------------------------- *)
\* What a client can put in the refreshToken cookie: nothing, a token it was
\* given, or a token with a signature of its own making.
PresentableTokens ==
  {NoToken, Forge(generateRefreshToken(1, 0))} \cup delivered
  \cup {Forge(t) : t \in delivered}

\* A comparison of the account ids of the two tokens only.
TokenMismatch_idOnly(newRefreshToken, stored) == newRefreshToken.id # stored.id

\* Line 491: newRefreshToken !== userId?.refreshToken
TokenMismatch(newRefreshToken, stored) == newRefreshToken # stored

\* refreshAccessToken without the test of lines 448-450.
refreshAccessToken_verify_noCookieCheck(p, newRefreshToken) ==
  /\ p = FreeProc
  /\ LET req == [token |-> newRefreshToken]
         reason == jwtVerify(newRefreshToken, now)
         userId == findById(newRefreshToken.id)
         stored == IF userId = 0 THEN NoToken ELSE db[userId].refreshToken
         fail(user, resp) == Finish(p, "refresh", req, user, stored, NoToken, resp)
     IN IF reason # "" THEN fail(0, ApiError(401, reason))
        ELSE IF userId = 0 THEN fail(0, ApiError(401, "Invalid token found"))
        ELSE IF TokenMismatch(newRefreshToken, stored)
          THEN fail(userId, ApiError(401, "Refresh token is expired"))
        ELSE CallGenerateTokens(p, "refresh", req, userId, stored)
  /\ UNCHANGED <<db, now, delivered, issued, closed>>

\* refreshAccessToken without the test of lines 480-482.
refreshAccessToken_verify_noNullCheck(p, newRefreshToken) ==
  /\ p = FreeProc
  /\ LET req == [token |-> newRefreshToken]
         reason == jwtVerify(newRefreshToken, now)
         userId == findById(newRefreshToken.id)
         stored == IF userId = 0 THEN NoToken ELSE db[userId].refreshToken
         fail(user, resp) == Finish(p, "refresh", req, user, stored, NoToken, resp)
     IN IF newRefreshToken = NoToken
          THEN fail(0, ApiError(401, "Unauthorized request found"))
        ELSE IF reason # "" THEN fail(0, ApiError(401, reason))
        ELSE IF TokenMismatch(newRefreshToken, stored)
          THEN fail(userId, ApiError(401, "Refresh token is expired"))
        ELSE CallGenerateTokens(p, "refresh", req, userId, stored)
  /\ UNCHANGED <<db, now, delivered, issued, closed>>

\* Lines 440-514: cookie, jwt.verify, findById, compare, call of generateTokens;
\* the catch of lines 540-548 answers 401 with the message of what was thrown.
refreshAccessToken_verify(p, newRefreshToken) ==
  /\ p = FreeProc
  /\ LET req == [token |-> newRefreshToken]
         reason == jwtVerify(newRefreshToken, now)
         userId == findById(newRefreshToken.id)
         stored == IF userId = 0 THEN NoToken ELSE db[userId].refreshToken
         fail(user, resp) == Finish(p, "refresh", req, user, stored, NoToken, resp)
     IN IF newRefreshToken = NoToken
          THEN fail(0, ApiError(401, "Unauthorized request found"))
        ELSE IF reason # "" THEN fail(0, ApiError(401, reason))
        ELSE IF userId = 0 THEN fail(0, ApiError(401, "Invalid token found"))
        ELSE IF TokenMismatch(newRefreshToken, stored)
          THEN fail(userId, ApiError(401, "Refresh token is expired"))
        ELSE CallGenerateTokens(p, "refresh", req, userId, stored)
  /\ UNCHANGED <<db, now, delivered, issued, closed>>

refreshAccessToken ==
  \E p \in Procs, newRefreshToken \in PresentableTokens :
    refreshAccessToken_verify(p, newRefreshToken)

\* Every token REFRESH_TOKEN_SECRET has signed or could have: for an account of
\* the store or for an id that names none, at any second up to now.
SignedTokens == {generateRefreshToken(id, t) : id \in 1..(MaxAccounts + 1), t \in 0..now}

\* refreshAccessToken presented with any token of the server's own signing.
refreshAccessToken_signed ==
  \E p \in Procs, newRefreshToken \in SignedTokens :
    refreshAccessToken_verify(p, newRefreshToken)

\* The tokens generateTokens has signed and no response has carried yet.
HeldBack == {procs[q].tok : q \in Procs} \ delivered

\* refreshAccessToken presented with any token of the server's own signing that
\* has left the server or was never made by it.
refreshAccessToken_known ==
  \E p \in Procs, newRefreshToken \in SignedTokens \ HeldBack :
    refreshAccessToken_verify(p, newRefreshToken)

(* ----------------------------- logoutUser ------------------------------ *)
\* The accounts the authentication gate lets through: those a token pair was
\* delivered for.
Authenticated == {i \in Ids : \E t \in delivered : t.id = i}

ClearOptions == [httpOnly |-> TRUE, secure |-> TRUE]

LoggedOut(id) ==
  [op |-> "logout", req |-> [user |-> id], user |-> id, snapTok |-> NoToken,
   tok |-> NoToken,
   resp |-> [Response(200, "User logged out successfully", {}, NoData)
               EXCEPT !.cleared = {"accessToken", "refreshToken"}]]

\* `closed` records the logouts that ran with no generateTokens of the account
\* in flight; a login that saves its token reopens the account.
CloseSession(id) ==
  closed' = IF GenInFlight(id) THEN closed \ {id} ELSE closed \cup {id}

\* A logout that answers without touching the record.
logoutUser_noUnset(id) ==
  /\ id \in Authenticated
  /\ last' = LoggedOut(id)
  /\ CloseSession(id)
  /\ UNCHANGED <<db, now, procs, delivered, issued, calls>>

\* A logout mounted without the gate: any account id at all.
logoutUser_noGate(id) ==
  /\ db' = [db EXCEPT ![id].refreshToken = NoToken]
  /\ last' = LoggedOut(id)
  /\ CloseSession(id)
  /\ UNCHANGED <<now, procs, delivered, issued, calls>>

\* Lines 384-418: $unset of refreshToken, both cookies cleared, 200.
logoutUser(id) ==
  /\ id \in Authenticated
  /\ db' = [db EXCEPT ![id].refreshToken = NoToken]
  /\ last' = LoggedOut(id)
  /\ CloseSession(id)
  /\ UNCHANGED <<now, procs, delivered, issued, calls>>

(* ------------------------ changeCurrentPassword ------------------------ *)
\* A change that goes on to the save whatever the old password.
changeCurrentPassword_findById_noCheck(p, id, oldPassword, newPassword) ==
  /\ p = FreeProc
  /\ id \in Authenticated
  /\ Suspend(p, "changePassword", "pwsave",
       [user |-> id, oldPassword |-> oldPassword, newPassword |-> newPassword],
       id, NoToken, NoToken, NoToken)
  /\ UNCHANGED <<db, now, delivered, issued, closed>>

\* Lines 572-601: findById of the authenticated account, old password check.
changeCurrentPassword_findById(p, id, oldPassword, newPassword) ==
  /\ p = FreeProc
  /\ id \in Authenticated
  /\ LET req == [user |-> id, oldPassword |-> oldPassword, newPassword |-> newPassword]
     IN IF ~isPasswordCorrect(oldPassword, db[id].password)
          THEN Finish(p, "changePassword", req, id, NoToken, NoToken,
                 ApiError(401, "Old password does not match"))
          ELSE Suspend(p, "changePassword", "pwsave", req, id, NoToken, NoToken, NoToken)
  /\ UNCHANGED <<db, now, delivered, issued, closed>>

\* A change that answers 200 without writing the record.
changeCurrentPassword_save_noWrite(p) ==
  /\ procs[p].op = "changePassword" /\ procs[p].pc = "pwsave"
  /\ Finish(p, "changePassword", procs[p].req, procs[p].user, NoToken, NoToken,
       Response(200, "Password changed successfully", {}, NoData))
  /\ UNCHANGED <<db, now, delivered, issued, closed>>

\* A change that also ends the session: the refresh token is unset with it.
changeCurrentPassword_save_dropToken(p) ==
  /\ procs[p].op = "changePassword" /\ procs[p].pc = "pwsave"
  /\ db' = [db EXCEPT ![procs[p].user].password = Hash(procs[p].req.newPassword),
                      ![procs[p].user].refreshToken = NoToken]
  /\ Finish(p, "changePassword", procs[p].req, procs[p].user, NoToken, NoToken,
       Response(200, "Password changed successfully", {}, NoData))
  /\ UNCHANGED <<now, delivered, issued, closed>>

\* Lines 608-619: user.password = newPassword; save (hashed on write); 200.
changeCurrentPassword_save(p) ==
  /\ procs[p].op = "changePassword" /\ procs[p].pc = "pwsave"
  /\ db' = [db EXCEPT ![procs[p].user].password = Hash(procs[p].req.newPassword)]
  /\ Finish(p, "changePassword", procs[p].req, procs[p].user, NoToken, NoToken,
       Response(200, "Password changed successfully", {}, NoData))
  /\ UNCHANGED <<now, delivered, issued, closed>>

changeCurrentPassword ==
  \E p \in Procs :
    \/ \E id \in Ids, oldPassword \in Passwords, newPassword \in Passwords :
         changeCurrentPassword_findById(p, id, oldPassword, newPassword)
    \/ changeCurrentPassword_save(p)

(* ------------------------- authentication gate ------------------------- *)
\* What a client can present as its access token: nothing, the access token
\* of a pair it was given, or one with a signature of its own making.
Credentials ==
  {NoToken} \cup {generateAccessToken(t.id, t.iat) : t \in delivered}
  \cup {Forge(generateAccessToken(i, 0)) : i \in 1..MaxAccounts}

\* verifyJWToken: the account the gate sets as req.user, 0 when it refuses.
verifyJWToken(cred) ==
  IF cred.sig /\ cred.typ = "access" /\ cred.id \in Ids THEN cred.id ELSE 0

\* A request to /logout or /change-password that the gate refuses: the router
\* never calls the handler mounted behind it.
gateRefused ==
  \E route \in {"logout", "changePassword"}, cred \in Credentials :
    /\ verifyJWToken(cred) = 0
    /\ FreeProc # 0
    /\ last' = [op |-> "gate", req |-> [route |-> route, cred |-> cred], user |-> 0,
                snapTok |-> NoToken, tok |-> NoToken,
                resp |-> ApiError(401, "Unauthorized request")]
    /\ UNCHANGED <<db, now, procs, delivered, issued, closed, calls>>

(* -------------------------- specifications ----------------------------- *)
\* Registration alone: every request shape, requests interleaved.
NextRegister ==
  \/ registerUser(RegisterBodies, FilesSet, BOOLEAN)
  \/ registerUser_refetchEmpty

SpecRegister == InitRegister /\ [][NextRegister]_vars

\* The session life cycle: registration of two accounts, login, refresh, logout.
Next ==
  \/ Tick
  \/ registerUser(SessionBodies, {BothFiles}, {TRUE})
  \/ loginUser
  \/ generateTokens
  \/ refreshAccessToken
  \/ \E id \in Ids : logoutUser(id)

Spec == Init /\ [][Next]_vars

\* Passwords: registration, login and password change.
NextPassword ==
  \/ registerUser(SessionBodies, {BothFiles}, {TRUE})
  \/ loginUser
  \/ generateTokens
  \/ changeCurrentPassword

SpecPassword == Init /\ [][NextPassword]_vars

\* Ids that name no account: generateTokens called directly, refreshAccessToken
\* presented with well-signed tokens of any subject.
NextTokens ==
  \/ Tick
  \/ registerUser(SessionBodies, {BothFiles}, {TRUE})
  \/ generateTokens_direct
  \/ generateTokens
  \/ refreshAccessToken_signed

SpecTokens == Init /\ [][NextTokens]_vars

\* Requests of one account interleaved: logins, refreshes and logouts whose
\* reads and saves fall between one another's.
NextConcurrent ==
  \/ Tick
  \/ registerUser({[ValidBody EXCEPT !.userName = <<"b">>, !.email = <<"f">>]},
                  {BothFiles}, {TRUE})
  \/ loginUser_session
  \/ generateTokens
  \/ refreshAccessToken
  \/ \E id \in Ids : logoutUser(id)

SpecConcurrent == InitRegister /\ [][NextConcurrent]_vars

\* The self-transitions of a session: password change and refresh.
NextSelf ==
  \/ registerUser({[ValidBody EXCEPT !.userName = <<"b">>, !.email = <<"f">>]},
                  {BothFiles}, {TRUE})
  \/ loginUser_session
  \/ generateTokens
  \/ changeCurrentPassword
  \/ refreshAccessToken

SpecSelf == Init /\ [][NextSelf]_vars

\* The router: the open routes, the gate, and the two handlers behind it.
NextRoutes ==
  \/ registerUser(SessionBodies, {BothFiles}, {TRUE})
  \/ loginUser
  \/ generateTokens
  \/ gateRefused
  \/ \E id \in Ids : logoutUser(id)
  \/ changeCurrentPassword

SpecRoutes == Init /\ [][NextRoutes]_vars

\* New accounts: registration, login, and refreshes with well-signed tokens.
NextFresh ==
  \/ Tick
  \/ registerUser(SessionBodies, {BothFiles}, {TRUE})
  \/ loginUser
  \/ generateTokens
  \/ refreshAccessToken_known

SpecFresh == Init /\ [][NextFresh]_vars

\* Two accounts and every handler that writes a record.
NextIsolation ==
  \/ registerUser(SessionBodies, {BothFiles}, {TRUE})
  \/ loginUser
  \/ generateTokens
  \/ refreshAccessToken
  \/ \E id \in Ids : logoutUser(id)
  \/ changeCurrentPassword

SpecIsolation == Init /\ [][NextIsolation]_vars

(* ---------------------------- asyncHandler ----------------------------- *)
\* The handlers the controller wraps with asyncHandler.
Wrapped ==
  {"registerUser", "loginUser", "logoutUser", "refreshAccessToken",
   "changeCurrentPassword", "getCurrentUser", "updateAccountDetails",
   "updateUserAvatar", "updateUserCoverImage", "getUserChannelProfile",
   "getWatchHistory"}

\* What the router hands a middleware: the request (a body, cookies, and the
\* user the gate attached when the route has one) and the response, which has
\* status(), cookie() and json() and neither body, cookies nor user.
ExpressRequests ==
  {[kind |-> "request", body |-> ValidBody, cookies |-> NoData],
   [kind |-> "request", body |-> ValidBody,
    cookies |-> [refreshToken |-> generateRefreshToken(1, 0)]],
   [kind |-> "request", body |-> ValidBody, cookies |-> NoData, user |-> 1]}

ExpressResponse == [kind |-> "response"]

\* The promise an async handler returns, as it will settle.
Rejected(err) == [settled |-> "rejected", err |-> err, sent |-> 0]

Resolved(sent) == [settled |-> "resolved", err |-> NoData, sent |-> sent]

\* res.status(..).json(..): res must be the response.
Responds(res) ==
  IF res.kind = "response" THEN {Resolved(1)} ELSE {Rejected(TypeError)}

\* The ways the handler h can settle when called with (req, res): what it reads
\* of req first, the first failure it throws, and its answer through res.
reqHandler(h, req, res) ==
  CASE h = "registerUser" ->
         IF "body" \notin DOMAIN req THEN {Rejected(TypeError)}
         ELSE {Rejected(ApiError(400, "All fields are required"))} \cup Responds(res)
    [] h = "loginUser" ->
         IF "body" \notin DOMAIN req THEN {Rejected(TypeError)}
         ELSE {Rejected(ApiError(400, "Either username or email required"))}
                \cup Responds(res)
    [] h = "logoutUser" ->
         IF "user" \notin DOMAIN req THEN {Rejected(TypeError)} ELSE Responds(res)
    [] h = "refreshAccessToken" ->
         IF \/ "cookies" \notin DOMAIN req
            \/ "refreshToken" \notin DOMAIN req.cookies
         THEN {Rejected(ApiError(401, "Unauthorized request found"))}
         ELSE {Rejected(ApiError(401, "Invalid token found"))} \cup Responds(res)
    [] h = "changeCurrentPassword" ->
         IF "body" \notin DOMAIN req THEN {Rejected(TypeError)}
         ELSE {Rejected(ApiError(401, "Old password does not match"))}
                \cup Responds(res)
    [] h = "getCurrentUser" -> Responds(res)
    [] h = "updateAccountDetails" ->
         IF "body" \notin DOMAIN req THEN {Rejected(TypeError)} ELSE {Resolved(0)}
    [] OTHER -> {Resolved(0)}

\* The arguments the returned middleware gives the handler. The router calls
\* it with (request, response, next); its parameters are named (res, req, next)
\* and it calls reqHandler(req, res, next): the handler's req is the response
\* and its res the request.
Passed(first, second) ==
  LET res == first
      req == second
  IN [req |-> req, res |-> res]

\* The router calls the middleware asyncHandler returned, which calls
\* reqHandler once.
asyncHandler_call ==
  \E h \in Wrapped, request \in ExpressRequests :
    LET p == FreeProc
        args == Passed(request, ExpressResponse)
    IN /\ p # 0
       /\ \E promise \in reqHandler(h, args.req, args.res) :
            procs' = [procs EXCEPT ![p] =
                        [op |-> h, pc |-> "pending", req |-> request, user |-> 0,
                         snapTok |-> NoToken, tok |-> NoToken, acc |-> NoToken,
                         args |-> args,
                         invoked |-> 1, promise |-> promise, forwarded |-> 0]]
       /\ UNCHANGED <<db, now, delivered, issued, closed, calls, last>>

\* The promise settles: .catch((err) => next(err)) runs when it rejected, and
\* nothing runs when it resolved.
asyncHandler_settle ==
  \E p \in Procs :
    /\ procs[p].pc = "pending"
    /\ LET promise == procs[p].promise
           forwarded == IF promise.settled = "rejected"
                        THEN procs[p].forwarded + 1 ELSE procs[p].forwarded
       IN last' = [op |-> procs[p].op, req |-> procs[p].req, user |-> 0,
                   snapTok |-> NoToken, tok |-> NoToken,
                   resp |-> IF promise.settled = "rejected" THEN promise.err
                            ELSE Response(0, "", {}, NoData),
                   invoked |-> procs[p].invoked, settled |-> promise.settled,
                   sent |-> promise.sent, forwarded |-> forwarded]
    /\ procs' = [procs EXCEPT ![p] = Idle]
    /\ UNCHANGED <<db, now, delivered, issued, closed, calls>>

\* Requests to the wrapped handlers, two in flight at once.
NextHandler ==
  \/ asyncHandler_call
  \/ asyncHandler_settle

SpecHandler == InitRegister /\ [][NextHandler]_vars

(* ------------------------------ startup -------------------------------- *)
\* The process from its start has the slot after the request slots.
Main == NumSerial + 1

Boot ==
  [op |-> "startup", pc |-> "start", req |-> NoData, user |-> 0,
   snapTok |-> NoToken, tok |-> NoToken, acc |-> NoToken,
   connectCalls |-> 0, dbError |-> FALSE, listening |-> FALSE, exitCode |-> -1]

InitStartup ==
  /\ InitStore
  /\ procs = [p \in 1..Main |-> IF p = Main THEN Boot ELSE Idle]

\* connectDB() is called and runs to its await of mongoose.connect.
connectDB_call ==
  /\ procs[Main].pc = "start"
  /\ procs' = [procs EXCEPT ![Main].pc = "connecting",
                            ![Main].connectCalls = procs[Main].connectCalls + 1]
  /\ UNCHANGED <<db, now, delivered, issued, closed, calls, last>>

\* The catch block without its exit: the async function returns and its
\* promise resolves.
connectDB_catch_noExit(boot) ==
  [boot EXCEPT !.pc = "resolved", !.dbError = TRUE]

\* The catch block of connectDB: the error is logged and process.exit(1) ends
\* the process.
connectDB_catch(boot) ==
  [boot EXCEPT !.pc = "exited", !.dbError = TRUE, !.exitCode = 1]

\* mongoose.connect settles: connectDB logs the host and its promise resolves,
\* or the catch block runs.
connectDB_settle ==
  /\ procs[Main].pc = "connecting"
  /\ \E connected \in BOOLEAN :
       procs' = [procs EXCEPT ![Main] = IF connected
                                     THEN [procs[Main] EXCEPT !.pc = "resolved"]
                                     ELSE connectDB_catch(procs[Main])]
  /\ UNCHANGED <<db, now, delivered, issued, closed, calls, last>>

\* The .then callback: app.on("error", ..) and app.listen(PORT || 8080).
listen ==
  /\ procs[Main].pc = "resolved"
  /\ procs' = [procs EXCEPT ![Main].pc = "listening", ![Main].listening = TRUE]
  /\ UNCHANGED <<db, now, delivered, issued, closed, calls, last>>

\* Requests are served once the server listens.
Serving == procs[Main].listening /\ procs[Main].exitCode = -1

\* Startup, then registration and login.
NextStartup ==
  \/ connectDB_call
  \/ connectDB_settle
  \/ listen
  \/ Serving /\ registerUser(SessionBodies, {BothFiles}, {TRUE})
  \/ Serving /\ loginUser
  \/ Serving /\ generateTokens

SpecStartup == InitStartup /\ [][NextStartup]_vars

(* ------------------------------ properties ----------------------------- *)
\* A request that started in this step and is now suspended at an await.
StartedSuspended(p, op) ==
  procs[p].pc = "idle" /\ procs'[p].pc # "idle" /\ procs'[p].op = op

\* A request that was answered in the step it started in.
AnsweredAtOnce(op) == last' # last /\ procs' = procs /\ last'.op = op

\* A request that was answered in this step.
Completed(op) == last' # last /\ last'.op = op

\* The accounts a login or a registration names, read off the store itself.
MatchingIds(userName, email) == {i \in Ids : Matches(db[i], userName, email)}

FieldsOk(body) ==
  someBlank(<<body.fullName, body.userName, body.email, body.password>>) = "ok"

\* C1: a refresh whose token verified and names an existing account, but is not
\* the token stored on that account, is answered 401, sets no cookie and gets no
\* new token pair; no request with such a token is ever inside generateTokens.
C1_MismatchedRefreshRejected ==
  /\ (last.op = "refresh" /\ last.user # 0 /\ last.req.token # last.snapTok)
       => (last.resp.status = 401 /\ last.resp.cookies = {} /\ last.tok = NoToken)
  /\ \A p \in Procs :
       (procs[p].op = "refresh" /\ procs[p].pc # "idle")
         => procs[p].req.token = procs[p].snapTok

\* C1 witness: a rotated-out token that still verifies was presented and refused.
C1_Witness ==
  /\ last.op = "refresh" /\ last.user # 0
  /\ last.snapTok # NoToken /\ last.req.token # last.snapTok
  /\ jwtVerify(last.req.token, now) = ""
  /\ last.resp.status = 401

\* The save of generateTokens leaves the token it was given on the record.
SaveStoresToken ==
  \A p \in Procs :
    (procs[p].pc = "save" /\ procs'[p].pc # "save" /\ issued' # issued)
      => db'[procs[p].user].refreshToken = procs[p].tok

\* C2 as stated: after two issuances for an account the record holds the second
\* token, and no refresh presenting the first one is accepted.
C2_RotationAsStated ==
  [][/\ SaveStoresToken
     /\ \A p \in Procs :
          StartedSuspended(p, "refresh")
            => LET u == procs'[p].user
               IN ~(/\ issued[u].prev # NoToken
                    /\ db[u].refreshToken = issued[u].cur
                    /\ procs'[p].req.token = issued[u].prev)]_vars

\* C2 amended: after two issuances for an account the record holds the second
\* token, and a refresh presenting the first one is accepted only when the two
\* tokens are the same string (same account, same second of issue).
C2_Rotation ==
  [][/\ SaveStoresToken
     /\ \A p \in Procs :
          StartedSuspended(p, "refresh")
            => LET u == procs'[p].user
               IN (/\ issued[u].prev # NoToken
                   /\ db[u].refreshToken = issued[u].cur
                   /\ procs'[p].req.token = issued[u].prev)
                    => issued[u].prev = issued[u].cur]_vars

\* C2 witness: two different tokens were issued in turn and a refresh with the
\* first of them was refused.
C2_Witness ==
  /\ last.op = "refresh" /\ last.user # 0 /\ last.resp.status = 401
  /\ issued[last.user].prev # NoToken
  /\ issued[last.user].prev # issued[last.user].cur
  /\ db[last.user].refreshToken = issued[last.user].cur
  /\ last.req.token = issued[last.user].prev

\* C3: from a logout that ran with no other request of the account in flight
\* until a login of that account saves a token, the record holds no refresh
\* token, no refresh for the account is accepted, and every refresh naming the
\* account is answered 401.
C3_LogoutClosesSession ==
  \A u \in closed :
    /\ db[u].refreshToken = NoToken
    /\ \A p \in Procs :
         ~(procs[p].op = "refresh" /\ procs[p].pc # "idle" /\ procs[p].user = u)
    /\ (last.op = "refresh" /\ last.req.token.id = u) => last.resp.status = 401

\* C3 witness: after the logout the token that was on the record, still
\* unexpired, was presented and refused.
C3_Witness ==
  \E u \in closed :
    /\ last.op = "refresh" /\ last.resp.status = 401
    /\ last.req.token = issued[u].cur
    /\ jwtVerify(last.req.token, now) = ""

\* C4: a login naming no account is answered 401 "User does not exist" in the
\* step it arrives, never reaches generateTokens, sets no cookie and leaves the
\* store as it was.
C4_LoginUnknownUser ==
  [][/\ \A p \in Procs :
          StartedSuspended(p, "login")
            => MatchingIds(procs'[p].req.userName, procs'[p].req.email) # {}
     /\ (/\ AnsweredAtOnce("login")
         /\ Truthy(last'.req.userName) \/ Truthy(last'.req.email)
         /\ MatchingIds(last'.req.userName, last'.req.email) = {})
          => /\ last'.resp = ApiError(401, "User does not exist")
             /\ db' = db /\ calls' = calls /\ delivered' = delivered]_vars

\* C4 witness: with accounts in the store, a login for an unknown name was refused.
C4_Witness ==
  /\ last.op = "login" /\ last.resp.message = "User does not exist"
  /\ Len(db) > 0
  /\ MatchingIds(last.req.userName, last.req.email) = {}

\* The account a login names has another password than the one submitted.
WrongPassword(body) ==
  LET hits == MatchingIds(body.userName, body.email)
  IN /\ hits # {}
     /\ LET u == CHOOSE i \in hits : \A j \in hits : i <= j
        IN Hash(body.password) # db[u].password

\* C5: a login for an existing account with a password that does not verify is
\* answered 401 "Invalid password" in the step it arrives, never reaches
\* generateTokens, sets no cookie and leaves the store (the refresh token on the
\* record included) as it was.
C5_LoginWrongPassword ==
  [][/\ \A p \in Procs : StartedSuspended(p, "login") => ~WrongPassword(procs'[p].req)
     /\ (AnsweredAtOnce("login") /\ WrongPassword(last'.req))
          => /\ last'.resp = ApiError(401, "Invalid password")
             /\ db' = db /\ calls' = calls /\ delivered' = delivered]_vars

\* C5 witness: the wrong password was refused for an account with a live session.
C5_Witness ==
  /\ last.op = "login" /\ last.resp.message = "Invalid password"
  /\ last.user # 0
  /\ db[last.user].refreshToken # NoToken

\* C6 as stated: a login that follows a successful registration at once, with
\* the user name and password that were registered, is answered 200 with both
\* cookies and that account (a failure of the store's save apart).
C6_LoginAfterRegister ==
  [][(/\ last.op = "register" /\ last.resp.status = 201
      /\ Completed("login")
      /\ last'.req.userName = last.req.body.userName
      /\ last'.req.password = last.req.body.password
      /\ last'.req.email = Undefined
      /\ last'.resp.message # "Error while generating tokens")
       => /\ last'.resp.status = 200
          /\ {c.name : c \in last'.resp.cookies} = {"accessToken", "refreshToken"}
          /\ last'.resp.data.user._id = last.user]_vars

\* An account of the store has this user name or this email.
Duplicate(body) ==
  \E i \in Ids : db[i].userName = body.userName \/ db[i].email = body.email

\* C7 as stated: every registration whose user name or email is that of an
\* account in the store is answered 400 "User already exist", never reaches the
\* upload or User.create, and leaves the store as it was.
C7_DuplicateAsStated ==
  [][/\ \A p \in Procs :
          StartedSuspended(p, "register") => ~Duplicate(procs'[p].req.body)
     /\ (AnsweredAtOnce("register") /\ Duplicate(last'.req.body))
          => /\ last'.resp = ApiError(400, "User already exist")
             /\ db' = db]_vars

\* C7 amended: a registration with four non-blank fields whose user name or email is
\* that of an account in the store is answered 400 "User already exist" in the
\* step it arrives, never reaches the upload or User.create, and leaves the
\* store as it was.
C7_DuplicateRejected ==
  [][/\ \A p \in Procs :
          StartedSuspended(p, "register") => ~Duplicate(procs'[p].req.body)
     /\ (/\ AnsweredAtOnce("register")
         /\ FieldsOk(last'.req.body)
         /\ Duplicate(last'.req.body))
          => /\ last'.resp = ApiError(400, "User already exist")
             /\ db' = db]_vars

\* C7 witness: a registration was refused as a duplicate by its email alone.
C7_Witness ==
  /\ last.op = "register" /\ last.resp.message = "User already exist"
  /\ \E i \in Ids : db[i].email = last.req.body.email
  /\ \A i \in Ids : db[i].userName # last.req.body.userName

\* C8 as stated: no two accounts of the store share a user name or an email.
C8_UniqueAccounts ==
  \A i, j \in Ids :
    i # j => db[i].userName # db[j].userName /\ db[i].email # db[j].email

\* C9: the account in a successful registerUser or loginUser response has
\* neither a password nor a refreshToken field.
C9_Sanitized ==
  /\ (last.op = "register" /\ last.resp.status = 201)
       => DOMAIN last.resp.data.isUserCreated \cap {"password", "refreshToken"} = {}
  /\ (last.op = "login" /\ last.resp.status = 200)
       => DOMAIN last.resp.data.user \cap {"password", "refreshToken"} = {}

\* C9 witness: a login answered 200 with the account while the record holds a
\* refresh token and a password hash.
C9_Witness ==
  /\ last.op = "login" /\ last.resp.status = 200
  /\ db[last.user].refreshToken # NoToken
  /\ db[last.user].password = Hash(last.req.password)
  /\ last.resp.data.user.userName = db[last.user].userName

\* C10 as stated: a registration with four non-blank fields, a user name and
\* email no account has, and the avatar as its only image is answered 201.
C10_AvatarOnlyRegisters ==
  (/\ last.op = "register"
   /\ FieldsOk(last.req.body) /\ ~Duplicate(last.req.body)
   /\ last.req.files.defined
   /\ last.req.files.avatarImage /\ ~last.req.files.coverImage)
    => last.resp.status = 201

\* C11 as stated: a registration with one of the four fields absent or blank
\* after trimming is answered 400 "All fields are required" and creates no
\* account.
C11_BlankOrAbsentRejected ==
  (last.op = "register" /\ ~FieldsOk(last.req.body))
    => last.resp = ApiError(400, "All fields are required")

\* A login that completed with tokens, or got as far as generateTokens.
LoginPassed(resp) ==
  resp.status = 200 \/ resp.message = "Error while generating tokens"

\* C12: a password change with the right old password and another new one is
\* answered 200 with an empty payload and leaves the hash of the new password
\* on the record; of the logins of that account that follow it, the one with
\* the new password passes the password check, and the one with the old
\* password is answered 401 in the step it arrives and never reaches
\* generateTokens.
C12_PasswordChanged ==
  [][/\ (Completed("changePassword") /\ last'.resp.status = 200)
          => /\ last'.resp = Response(200, "Password changed successfully", {}, NoData)
             /\ db'[last'.user].password = Hash(last'.req.newPassword)
     /\ (/\ last.op = "changePassword" /\ last.resp.status = 200
         /\ last.req.oldPassword # last.req.newPassword)
          => /\ (/\ Completed("login") /\ last'.user = last.user
                 /\ last'.req.password = last.req.newPassword)
                  => LoginPassed(last'.resp)
             /\ (/\ AnsweredAtOnce("login") /\ last'.user = last.user
                 /\ last'.req.password = last.req.oldPassword)
                  => last'.resp = ApiError(401, "Invalid password")
             /\ \A p \in Procs :
                  (StartedSuspended(p, "login") /\ procs'[p].user = last.user)
                    => procs'[p].req.password # last.req.oldPassword]_vars

\* C12 witness: a login was answered 200 with a password no account was
\* registered with.
C12_Witness ==
  /\ last.op = "login" /\ last.resp.status = 200
  /\ last.req.password = <<"q">>
  /\ db[last.user].password = Hash(<<"q">>)

\* C13: a password change whose old password does not verify is answered 401
\* "Old password does not match" in the step it arrives, never reaches the
\* save and leaves the store as it was; the login of that account that follows
\* it passes the password check with the password on the record.
C13_WrongOldPassword ==
  [][/\ \A p \in Procs :
          StartedSuspended(p, "changePassword")
            => Hash(procs'[p].req.oldPassword) = db[procs'[p].user].password
     /\ (/\ AnsweredAtOnce("changePassword")
         /\ Hash(last'.req.oldPassword) # db[last'.user].password)
          => /\ last'.resp = ApiError(401, "Old password does not match")
             /\ db' = db
     /\ (/\ last.op = "changePassword" /\ last.resp.status = 401
         /\ Completed("login") /\ last'.user = last.user
         /\ Hash(last'.req.password) = db[last.user].password)
          => LoginPassed(last'.resp)]_vars

\* C13 witness: a change offering a wrong old password was refused, and the
\* record still holds the password it had, not the one offered as old.
C13_Witness ==
  /\ last.op = "changePassword" /\ last.resp.status = 401
  /\ last.req.oldPassword # last.req.newPassword
  /\ db[last.user].password = Hash(last.req.newPassword)

\* C14 as stated: generateTokens called with an id that names no account fails
\* with a NotFound (404) failure.
C14_NotFound ==
  (last.op = "generateTokens" /\ last.user \notin Ids) => last.resp.status = 404

\* C15 as stated: a login or refresh whose generateTokens failed is answered
\* with an Internal (500) failure "Error while generating tokens", carries no
\* token and sets no cookie.
C15_GenerateFailureInternal ==
  (last.op \in {"login", "refresh"} /\ last.resp.message = "Error while generating tokens")
    => /\ last.resp.status = 500
       /\ last.resp.cookies = {}
       /\ last.resp.data = NoData
       /\ last.tok = NoToken

\* The step leaves the store, the count of issuances and the tokens handed
\* out as they were.
NothingIssued == db' = db /\ calls' = calls /\ delivered' = delivered

\* C16: a refresh with no token in the cookie is answered 401 "Unauthorized
\* request found" in the step it arrives, with the message of that first test
\* and of no later one, never reaches generateTokens and writes nothing.
C16_NoTokenRejected ==
  [][/\ \A p \in Procs :
          StartedSuspended(p, "refresh") => procs'[p].req.token # NoToken
     /\ (AnsweredAtOnce("refresh") /\ last'.req.token = NoToken)
          => /\ last'.resp = ApiError(401, "Unauthorized request found")
             /\ last'.user = 0
             /\ NothingIssued]_vars

\* C16 witness: a refresh without a token was refused while an account had a
\* live session.
C16_Witness ==
  /\ last.op = "refresh" /\ last.req.token = NoToken
  /\ last.resp.message = "Unauthorized request found"
  /\ \E i \in Ids : db[i].refreshToken # NoToken

\* The token is not of the server's signing, or its lifetime is over at time t.
BadSignature(tok) == ~tok.sig \/ tok.typ # "refresh"

Expired(tok, t) == t >= tok.iat + RefreshTokenExpiry

\* C17: a refresh whose token fails the signature or the expiry test is
\* answered 401 with the verifier's reason in the step it arrives, names no
\* account, never reaches generateTokens and writes nothing.
C17_UnverifiedRejected ==
  [][/\ \A p \in Procs :
          StartedSuspended(p, "refresh")
            => ~BadSignature(procs'[p].req.token) /\ ~Expired(procs'[p].req.token, now)
     /\ (/\ AnsweredAtOnce("refresh") /\ last'.req.token # NoToken
         /\ BadSignature(last'.req.token) \/ Expired(last'.req.token, now))
          => /\ last'.resp = ApiError(401, IF BadSignature(last'.req.token)
                                             THEN "invalid signature" ELSE "jwt expired")
             /\ last'.user = 0
             /\ NothingIssued]_vars

\* C17 witness: the very token on the account's record was refused as expired.
C17_Witness ==
  /\ last.op = "refresh" /\ last.resp = ApiError(401, "jwt expired")
  /\ last.req.token.id \in Ids
  /\ db[last.req.token.id].refreshToken = last.req.token

\* C18: a refresh whose token verifies and names no account of the store is
\* answered 401 "Invalid token found" in the step it arrives, never reaches
\* generateTokens and writes nothing.
C18_UnknownAccountRejected ==
  [][/\ \A p \in Procs :
          StartedSuspended(p, "refresh") => procs'[p].req.token.id \in Ids
     /\ (/\ AnsweredAtOnce("refresh") /\ last'.req.token # NoToken
         /\ ~BadSignature(last'.req.token) /\ ~Expired(last'.req.token, now)
         /\ last'.req.token.id \notin Ids)
          => /\ last'.resp = ApiError(401, "Invalid token found")
             /\ NothingIssued]_vars

\* C18 witness: with accounts in the store, a well-signed unexpired token of
\* another subject was refused.
C18_Witness ==
  /\ last.op = "refresh" /\ last.resp.message = "Invalid token found"
  /\ Len(db) > 0
  /\ ~BadSignature(last.req.token) /\ ~Expired(last.req.token, now)
  /\ last.req.token.id \notin Ids

\* C19 as stated: every cookie of a successful login is httpOnly and secure.
C19_LoginCookiesProtected ==
  (last.op = "login" /\ last.resp.status = 200)
    => /\ {c.name : c \in last.resp.cookies} = {"accessToken", "refreshToken"}
       /\ \A c \in last.resp.cookies : c.httpOnly /\ c.secure

\* The value of the cookie of that name in the response.
CookieValues(resp, name) == {c.value : c \in {d \in resp.cookies : d.name = name}}

HoldsCredentials(id) == \E t \in delivered : t.id = id

C22_OneWrite ==
  [][\A p \in Procs :
       /\ (procs[p].pc = "gen" /\ procs'[p].pc # "gen") => db' = db
       /\ (procs[p].pc = "save" /\ procs'[p].pc # "save")
            => IF procs'[p].pc = "idle"
                    /\ last'.resp.message = "Error while generating tokens"
                 THEN db' = db
                 ELSE /\ db' = [db EXCEPT ![procs[p].user].refreshToken = procs[p].tok]
                      /\ procs[p].tok = generateRefreshToken(procs[p].user, procs[p].tok.iat)
       /\ (procs[p].pc = "fetch" /\ procs'[p].pc # "fetch") => db' = db]_vars

\* C22 witness: a direct call returned a pair whose refresh token is on the
\* record, beside the password hash the account was registered with.
C22_Witness ==
  /\ last.op = "generateTokens" /\ last.user \in Ids
  /\ last.resp.data = [accessToken |-> generateAccessToken(last.user, last.tok.iat),
                       refreshToken |-> last.tok]
  /\ db[last.user].refreshToken = last.tok
  /\ db[last.user].password = Hash(<<"p">>)

\* Both of the last two issuances for the account have completed and no logout
\* came after them: the record holds the token of the later save.
BothCompleted(u) ==
  /\ issued[u].prev # NoToken
  /\ ~GenInFlight(u)
  /\ db[u].refreshToken = issued[u].cur

\* A refresh presenting this token for account u arrives in this step and is
\* refused with 401.
RefusedNow(tok) ==
  AnsweredAtOnce("refresh") /\ last'.req.token = tok /\ last'.resp.status = 401

\* A refresh presenting this token arrives in this step and goes on to
\* generateTokens.
AcceptedNow(tok) ==
  \E p \in Procs : StartedSuspended(p, "refresh") /\ procs'[p].req.token = tok

\* C23 as stated: every save leaves its token on the record; once two
\* interleaved issuances for an account have completed, a refresh presenting
\* the token of the later save is not refused and a refresh presenting the
\* token of the earlier save is not accepted.
C23_LastWriterAsStated ==
  [][/\ SaveStoresToken
     /\ \A u \in Ids :
          BothCompleted(u)
            => /\ ~Expired(issued[u].cur, now) => ~RefusedNow(issued[u].cur)
               /\ ~AcceptedNow(issued[u].prev)]_vars

\* C23 amended: the same, the token of the earlier save being refused when it
\* is another string than the token of the later save.
C23_LastWriterWins ==
  [][/\ SaveStoresToken
     /\ \A u \in Ids :
          BothCompleted(u)
            => /\ ~Expired(issued[u].cur, now) => ~RefusedNow(issued[u].cur)
               /\ issued[u].prev # issued[u].cur => ~AcceptedNow(issued[u].prev)]_vars

\* C23 witness: a login has saved its token and not yet answered, and the
\* record already holds the other token, saved after it by a request that
\* ran alongside.
C23_Witness ==
  \E p \in Procs :
    /\ procs[p].op = "login" /\ procs[p].pc = "fetch"
    /\ issued[procs[p].user].prev = procs[p].tok
    /\ issued[procs[p].user].cur # procs[p].tok
    /\ db[procs[p].user].refreshToken = issued[procs[p].user].cur

\* C24 as stated, in its plainest case: once a refresh presenting a token has
\* succeeded and put another token in its place, the next refresh to complete
\* does not succeed with that same presented token.
C24_SingleUse ==
  [][~(/\ last.op = "refresh" /\ last.resp.status = 200
       /\ last.tok # last.req.token
       /\ Completed("refresh") /\ last'.resp.status = 200
       /\ last'.req.token = last.req.token)]_vars

\* A login of the account is in flight.
LoginInFlight(u) ==
  \E q \in Procs : procs[q].op = "login" /\ procs[q].pc # "idle" /\ procs[q].user = u

\* C25 as stated, for a refresh caught between its read and its save: when
\* the record it read a token from has been cleared by a logout since, and no
\* login of the account is under way, its save does not put a token back.
C25_LogoutFinal ==
  [][\A p \in Procs :
       (/\ procs[p].op = "refresh" /\ procs[p].pc = "save" /\ procs'[p].pc # "save"
        /\ procs[p].snapTok # NoToken
        /\ db[procs[p].user].refreshToken = NoToken
        /\ ~LoginInFlight(procs[p].user))
         => db'[procs[p].user].refreshToken = NoToken]_vars

\* The accounts this registration has created so far.
CreatedBy(p) ==
  IF procs[p].op = "register" /\ procs[p].pc = "created" THEN {procs[p].user} ELSE {}

\* C26 as stated: a registration that ends in a failure leaves no account of
\* its making in the store.
C26_NoPartialRegister ==
  [][\A p \in Procs :
       (/\ procs[p].op = "register" /\ procs'[p].pc = "idle"
        /\ last'.op = "register" /\ last'.resp.status # 201)
         => \A i \in CreatedBy(p) : i \notin 1..Len(db')]_vars

\* C27: a successful password change writes the password field of its account
\* and nothing else, the refresh token on the record staying as it was; while
\* that change is the latest answer, a refresh presenting the token on the
\* record (unexpired) is not refused.
C27_PasswordChangeKeepsToken ==
  [][/\ (Completed("changePassword") /\ last'.resp.status = 200)
          => /\ db'[last'.user].refreshToken = db[last'.user].refreshToken
             /\ db' = [db EXCEPT ![last'.user].password = db'[last'.user].password]
     /\ (/\ last.op = "changePassword" /\ last.resp.status = 200
         /\ db[last.user].refreshToken # NoToken
         /\ ~Expired(db[last.user].refreshToken, now))
          => ~RefusedNow(db[last.user].refreshToken)]_vars

\* C27 witness: the token of the one login of an account whose password was
\* changed since was presented to refreshAccessToken and accepted.
C27_Witness ==
  /\ last.op = "refresh" /\ last.resp.status = 200
  /\ calls = 2
  /\ last.req.token \in delivered
  /\ db[last.user].password = Hash(<<"q">>)

UpperCase == {"A", "B"}

IsLower(s) == \A i \in 1..Len(s) : s[i] \notin UpperCase

\* t is s with every upper-case letter replaced by its lower-case one.
LowerOf(s, t) ==
  /\ Len(t) = Len(s)
  /\ \A i \in 1..Len(s) :
       t[i] = IF s[i] = "A" THEN "a" ELSE IF s[i] = "B" THEN "b" ELSE s[i]

\* C28: the account a registration creates has as user name the lower-case
\* form of the user name submitted, and every user name in the store is
\* lower case.
C28_LowercaseUserNames ==
  [][/\ \A p \in Procs :
          (procs[p].op = "register" /\ procs[p].pc = "upload" /\ procs'[p].pc = "created")
            => /\ Len(db') = Len(db) + 1
               /\ LowerOf(procs[p].req.body.userName, db'[Len(db')].userName)
     /\ \A i \in 1..Len(db') : IsLower(db'[i].userName)]_vars

\* C28 witness: a registration submitted as "A" was answered 201 and its
\* account is stored as "a".
C28_Witness ==
  /\ last.op = "register" /\ last.resp.status = 201
  /\ last.req.body.userName = <<"A">>
  /\ db[last.user].userName = <<"a">>
  /\ last.resp.data.isUserCreated.userName = <<"a">>

C30_StartupOrdering ==
  [][/\ procs[Main].exitCode = -1
     /\ (procs'[Main].listening /\ ~procs[Main].listening)
          => /\ procs[Main].pc = "resolved"
             /\ ~procs[Main].dbError
             /\ procs[Main].connectCalls = 1
     /\ procs'[Main].connectCalls <= 1
     /\ procs'[Main].dbError => (procs'[Main].exitCode = 1 /\ ~procs'[Main].listening)
     /\ procs[Main].listening => procs'[Main].listening]_vars

C30_Witness ==
  /\ procs[Main].listening
  /\ procs[Main].connectCalls = 1
  /\ ~procs[Main].dbError
  /\ last.op = "login"
  /\ last.resp.status = 200

\* The accounts a login has succeeded for: a response carried their token.
LoggedIn == {i \in Ids : \E t \in delivered : t.id = i}

\* C31: registration stores the account without a refresh token, answers
\* without cookies and without tokens in the body, and issues nothing; a
\* refresh whose token names an account no login has yet succeeded for is
\* answered 401 in the step it arrives and never reaches generateTokens.
C31_FreshAccountHasNoSession ==
  [][/\ \A p \in Procs :
          (procs[p].op = "register" /\ procs[p].pc = "upload" /\ procs'[p].pc = "created")
            => /\ db'[Len(db')].refreshToken = NoToken
               /\ delivered' = delivered
     /\ Completed("register")
          => /\ last'.resp.cookies = {}
             /\ last'.tok = NoToken
             /\ last'.resp.status = 201
                  => {"accessToken", "refreshToken"} \cap DOMAIN last'.resp.data.isUserCreated = {}
             /\ delivered' = delivered
             /\ \A i \in Ids : db'[i].refreshToken = db[i].refreshToken
     /\ \A p \in Procs :
          StartedSuspended(p, "refresh") => procs'[p].user \in LoggedIn
     /\ (AnsweredAtOnce("refresh") /\ last'.req.token.id \in Ids \ LoggedIn)
          => (last'.resp.status = 401 /\ last'.resp.cookies = {} /\ last'.tok = NoToken)]_vars

C31_Witness ==
  /\ last.op = "refresh"
  /\ last.req.token.sig
  /\ last.req.token.id \in Ids \ LoggedIn
  /\ db[last.req.token.id].refreshToken = NoToken
  /\ last.resp = ApiError(401, "Refresh token is expired")

\* The store changed in field f of account i and nowhere else.
OnlyChanged(i, f) == db' = [db EXCEPT ![i] = [@ EXCEPT ![f] = db'[i][f]]]

\* The account the request of process p names: the one its login body matches,
\* the one its token's id claim names, or the authenticated one.
Names(p, i) ==
  CASE procs[p].op = "login" ->
         i \in MatchingIds(procs[p].req.userName, procs[p].req.email)
    [] procs[p].op = "refresh" -> i = procs[p].req.token.id
    [] procs[p].op = "changePassword" -> i = procs[p].req.user
    [] OTHER -> FALSE

\* C32: every step of loginUser, refreshAccessToken, logoutUser and
\* changeCurrentPassword that changes the store changes one field of one
\* account: refreshToken, in the save of a login or refresh naming that account
\* or in a logout of it, or password, in the save of a password change of it;
\* every other account and field is as before, and the tokens a login or
\* refresh saves and answers with carry the id of that account.
C32_AccountIsolation ==
  [][/\ (db' # db /\ Len(db') = Len(db))
          => \E i \in Ids :
               \/ /\ OnlyChanged(i, "refreshToken")
                  /\ \/ \E p \in Procs :
                          /\ procs[p].op \in {"login", "refresh"}
                          /\ procs[p].pc = "save" /\ procs'[p].pc # "save"
                          /\ procs[p].user = i /\ Names(p, i)
                          /\ db'[i].refreshToken = procs[p].tok
                     \/ /\ procs' = procs
                        /\ last' = LoggedOut(i)
                        /\ db'[i].refreshToken = NoToken
               \/ /\ OnlyChanged(i, "password")
                  /\ \E p \in Procs :
                       /\ procs[p].op = "changePassword"
                       /\ procs[p].pc = "pwsave" /\ procs'[p].pc = "idle"
                       /\ procs[p].user = i /\ Names(p, i)
     /\ \A p \in Procs :
          (procs[p].op \in {"login", "refresh"} /\ procs[p].pc = "save")
            => (procs[p].tok.id = procs[p].user /\ procs[p].acc.id = procs[p].user)
     /\ ((Completed("login") \/ Completed("refresh")) /\ last'.resp.status = 200)
          => /\ \A c \in last'.resp.cookies : c.value.id = last'.user
             /\ last'.resp.data.accessToken.id = last'.user
             /\ last'.resp.data.refreshToken.id = last'.user
             /\ last'.op = "login" => last'.resp.data.user._id = last'.user]_vars

C32_Witness ==
  /\ Len(db) = 2
  /\ last.op = "changePassword" /\ last.resp.status = 200
  /\ db[last.user].password = Hash(<<"q">>)
  /\ db[last.user].refreshToken # NoToken
  /\ \E j \in Ids \ {last.user} :
       db[j].password = Hash(<<"p">>) /\ db[j].refreshToken # NoToken

\* C33: the handler's first argument is the request the router handed the
\* middleware and its second the response; so a login request that carries a
\* body is not rejected for a body that cannot be read.
C33_ArgumentsInPosition ==
  /\ \A p \in Procs :
       procs[p].pc = "pending"
         => (procs[p].args.req = procs[p].req /\ procs[p].args.res = ExpressResponse)
  /\ (last.op = "loginUser" /\ "body" \in DOMAIN last.req) => last.resp # TypeError
====
